---- MODULE Spec2Model ----
(***************************************************************************)
(* City Vibe: event reconciliation (ETL pipeline), hybrid search, chat UI. *)
(*                                                                         *)
(* The pipeline is EventProcessor.process (docs/ARCHITECTURE.md): the      *)
(* stages normalize, validate, deduplicate, enrich, on top of the          *)
(* PostgreSQL schema (events, event_dedupe_signatures).  The query side is *)
(* the MCP tool search_events.  Parts the repository only names            *)
(* (normalizer, validator, deduplicator, merge_and_rerank) follow the      *)
(* written design of the reconciliation core.                              *)
(***************************************************************************)
EXTENDS Integers, Sequences, FiniteSets, TLC

\* the absent value of a numeric field; NOSID is the absent source-native id
NULL == 0 - 1000

NOSID == "none"

Min(a, b) == IF a <= b THEN a ELSE b

Max(a, b) == IF a >= b THEN a ELSE b

Abs(a) == IF a >= 0 THEN a ELSE 0 - a

Range(s) == {s[i] : i \in 1..Len(s)}

(***************************************************************************)
(* Text.  A character is a number: 0 is the space, 1..26 the lowercase     *)
(* letters a..z, 101..126 the uppercase letters, 50..59 punctuation.       *)
(***************************************************************************)
SP == 0

IsUpper(c) == c >= 101 /\ c <= 126

IsPunct(c) == c >= 50 /\ c <= 59

LowerChar(c) == IF IsUpper(c) THEN c - 100 ELSE c

Lower(s) == [i \in 1..Len(s) |-> LowerChar(s[i])]

RECURSIVE SplitWords(_, _, _)
\* the words of s (maximal runs without a space); cur is the word being read
SplitWords(s, cur, acc) ==
    IF s = <<>>
    THEN IF cur = <<>> THEN acc ELSE Append(acc, cur)
    ELSE IF Head(s) = SP
         THEN SplitWords(Tail(s), <<>>, IF cur = <<>> THEN acc ELSE Append(acc, cur))
         ELSE SplitWords(Tail(s), Append(cur, Head(s)), acc)

RECURSIVE JoinWords(_)
JoinWords(ws) ==
    IF ws = <<>> THEN <<>>
    ELSE IF Len(ws) = 1 THEN ws[1]
    ELSE ws[1] \o <<SP>> \o JoinWords(Tail(ws))

\* trim and collapse whitespace in a text field
CollapseWhitespace(s) == JoinWords(SplitWords(s, <<>>, <<>>))

StripPunct(s) == SelectSeq(s, LAMBDA c : ~IsPunct(c))

\* "at", "the", "in"
StopWords == {<<1, 20>>, <<20, 8, 5>>, <<9, 14>>}

\* fuzzy key material: lowercase, punctuation stripped, stopwords removed
FuzzyTitle(title) ==
    JoinWords(SelectSeq(SplitWords(StripPunct(Lower(title)), <<>>, <<>>),
                        LAMBDA w : w \notin StopWords))

RECURSIVE LevRow(_, _, _, _)
\* the next row of the edit-distance table: prev is the row of the prefix of a
\* before character ca, cur the part of the new row built so far
LevRow(prev, ca, b, cur) ==
    LET j == Len(cur) IN
    IF j = Len(b) + 1 THEN cur
    ELSE LevRow(prev, ca, b,
                Append(cur, Min(Min(prev[j + 1] + 1, cur[j] + 1),
                                prev[j] + (IF ca = b[j] THEN 0 ELSE 1))))

RECURSIVE LevRows(_, _, _)
LevRows(a, b, prev) ==
    IF a = <<>> THEN prev[Len(b) + 1]
    ELSE LevRows(Tail(a), b, LevRow(prev, Head(a), b, <<prev[1] + 1>>))

\* Levenshtein distance of a and b
Levenshtein(a, b) == LevRows(a, b, [j \in 1..(Len(b) + 1) |-> j - 1])

\* normalized edit-distance similarity, in percent
Similarity(a, b) ==
    LET m == Max(Len(a), Len(b)) IN
    IF m = 0 THEN 100 ELSE ((m - Levenshtein(a, b)) * 100) \div m

(***************************************************************************)
(* Raw records.  A raw start time is <<day, hour, minute, second>> as the  *)
(* source wrote it (<<>> when absent); a raw price is <<>> or <<min, max>>. *)
(***************************************************************************)
TJazzAtBird == <<110, 1, 26, 26, SP, 1, 20, SP, 102, 9, 18, 4>>

TJazzSignBird == <<110, 1, 26, 26, SP, 50, SP, 102, 9, 18, 4>>

TJazzShouted == <<SP, 110, 101, 126, 126, SP, SP, 1, 20, SP, 2, 9, 18, 4, SP>>

TOpera == <<115, 16, 5, 18, 1>>

TBlank == <<SP, SP>>

RawBase ==
    [rid |-> 0, sid |-> NOSID, title |-> <<>>, start |-> <<2, 20, 0, 0>>, end |-> <<>>,
     venue |-> 1, location |-> <<>>, desc |-> NULL, category |-> "jazz",
     conf |-> 50, price |-> <<>>, address |-> NULL, lat |-> NULL, lon |-> NULL,
     tags |-> {}]

\* "Jazz at Bird", 20:00, trusted scrape, address known but no coordinates
RawJazz ==
    [RawBase EXCEPT !.rid = 1, !.sid = "a", !.title = TJazzAtBird, !.desc = 1,
                    !.conf = 90, !.price = <<20, 30>>, !.address = 7]

\* "Jazz @ Bird", 20:02: a title variant of RawJazz from a less trusted scrape
RawJazzVariant ==
    [RawBase EXCEPT !.rid = 2, !.sid = "b", !.title = TJazzSignBird,
                    !.start = <<2, 20, 2, 0>>, !.desc = 2, !.conf = 50,
                    !.tags = {"live"}]

\* " JAZZ  at bird ", 20:00:30: the exact key of RawJazz, other case and spacing
RawJazzShouted ==
    [RawBase EXCEPT !.rid = 3, !.sid = "c", !.title = TJazzShouted,
                    !.start = <<2, 20, 0, 30>>, !.desc = 3, !.conf = 90,
                    !.price = <<40, 45>>, !.tags = {"jazz"}]

\* the source-native id of RawJazz on another event
RawOpera ==
    [RawBase EXCEPT !.rid = 4, !.sid = "a", !.title = TOpera, !.category = "stage",
                    !.conf = 70, !.lat = 0, !.lon = 5, !.address = 8]

\* no title
RawBlank == [RawBase EXCEPT !.rid = 5, !.title = TBlank]

\* a start time that is no time
RawBadStart == [RawBase EXCEPT !.rid = 6, !.title = TOpera, !.start = <<2, 25, 0, 0>>]

\* ends before it starts
RawEndsEarly ==
    [RawBase EXCEPT !.rid = 7, !.title = TOpera, !.start = <<2, 21, 0, 0>>,
                    !.end = <<2, 19, 0, 0>>]

RawPool ==
    {RawJazz, RawJazzVariant, RawJazzShouted, RawOpera, RawBlank, RawBadStart,
     RawEndsEarly}

\* "Jazz at Bard" and "Jaze at Bard": one and two letters off "Jazz at Bird"
TJazzAtBard == <<110, 1, 26, 26, SP, 1, 20, SP, 102, 1, 18, 4>>

TJazeAtBard == <<110, 1, 26, 5, SP, 1, 20, SP, 102, 1, 18, 4>>

\* listings of one evening at venue 1 unless said otherwise, none with an address
FuzzyBase == [RawBase EXCEPT !.title = TJazzAtBird, !.conf = 70]

\* 18:00
FuzzyEarly == [FuzzyBase EXCEPT !.rid = 11, !.start = <<2, 18, 0, 0>>]

\* 23:30, more than the tolerance window after FuzzyEarly
FuzzyLate == [FuzzyBase EXCEPT !.rid = 12, !.start = <<2, 23, 30, 0>>]

\* "Jazz at Bard", 23:30
FuzzyLateBard ==
    [FuzzyBase EXCEPT !.rid = 13, !.title = TJazzAtBard, !.start = <<2, 23, 30, 0>>,
                      !.conf = 60]

\* "Jazz @ Bird", 21:00: three hours after FuzzyEarly, 2.5 before FuzzyLate
FuzzyBetween ==
    [FuzzyBase EXCEPT !.rid = 14, !.title = TJazzSignBird, !.start = <<2, 21, 0, 0>>]

\* "Jaze at Bard", 18:30
FuzzyTypo ==
    [FuzzyBase EXCEPT !.rid = 15, !.title = TJazeAtBard, !.start = <<2, 18, 30, 0>>]

\* "Jazz at Bird", 19:00, at venue 2
FuzzyElsewhere == [FuzzyBase EXCEPT !.rid = 16, !.start = <<2, 19, 0, 0>>, !.venue = 2]

\* "Jazz at Bird", 19:30, and "Jazz @ Bird", 19:45, without venue or location
FuzzyNowhere == [FuzzyBase EXCEPT !.rid = 17, !.start = <<2, 19, 30, 0>>, !.venue = NULL]

FuzzyNowhereSign ==
    [FuzzyBase EXCEPT !.rid = 18, !.title = TJazzSignBird, !.start = <<2, 19, 45, 0>>,
                      !.venue = NULL]

FuzzyPool ==
    {FuzzyEarly, FuzzyLate, FuzzyLateBard, FuzzyBetween, FuzzyTypo, FuzzyElsewhere,
     FuzzyNowhere, FuzzyNowhereSign}

(***************************************************************************)
(* Normalizer                                                              *)
(***************************************************************************)
\* a free-form time to an instant (seconds), NULL when it is no time
ParseTime(t) ==
    IF Len(t) # 4 THEN NULL
    ELSE IF t[2] \in 0..23 /\ t[3] \in 0..59 /\ t[4] \in 0..59
         THEN ((t[1] * 24 + t[2]) * 60 + t[3]) * 60 + t[4]
         ELSE NULL

\* the per-source category vocabulary; unmapped values fall to "other"
EventTypeOf(category) ==
    CASE category = "jazz" -> "concert"
      [] category = "gig" -> "concert"
      [] category = "play" -> "theater"
      [] category = "exhibit" -> "museum"
      [] OTHER -> "other"

\* NormalizationError: the title is empty or the start time is unparsable
NormalizeFails(raw) ==
    \/ CollapseWhitespace(raw.title) = <<>>
    \/ ParseTime(raw.start) = NULL

\* the draft of a raw record of source src
Normalize(raw, src) ==
    [rid |-> raw.rid, src |-> src, sid |-> raw.sid,
     title |-> CollapseWhitespace(raw.title), desc |-> raw.desc,
     etype |-> EventTypeOf(raw.category),
     start |-> ParseTime(raw.start), end |-> ParseTime(raw.end),
     venue |-> raw.venue, location |-> CollapseWhitespace(raw.location),
     address |-> raw.address, lat |-> raw.lat, lon |-> raw.lon,
     price_min |-> IF raw.price = <<>> THEN NULL ELSE raw.price[1],
     price_max |-> IF raw.price = <<>> THEN NULL ELSE raw.price[2],
     conf |-> raw.conf, tags |-> raw.tags]

(***************************************************************************)
(* Validator                                                               *)
(***************************************************************************)
\* the instant the validator runs at: noon of day 2
ValidationNow == 2 * 86400 + 12 * 3600

PastHorizon == 86400

FutureHorizon == 365 * 86400

MaxTitleLen == 500

\* the rules a draft breaks
Violations(d) ==
    {v \in {"stale", "far_future", "end_before_start", "coordinates", "price", "title"} :
        \/ v = "stale" /\ d.start < ValidationNow - PastHorizon
        \/ v = "far_future" /\ d.start > ValidationNow + FutureHorizon
        \/ v = "end_before_start" /\ d.end # NULL /\ d.end < d.start
        \/ v = "coordinates"
           /\ \/ (d.lat = NULL) # (d.lon = NULL)
              \/ d.lat # NULL /\ d.lon # NULL
                 /\ ~(d.lat \in -90..90 /\ d.lon \in -180..180)
        \/ v = "price" /\ d.price_min # NULL /\ d.price_max # NULL
                       /\ d.price_min > d.price_max
        \/ v = "title" /\ ~(Len(d.title) \in 1..MaxTitleLen)}

\* EventValidator.validate
ValidateDraft(d) == Violations(d) = {}

(***************************************************************************)
(* Signature hasher                                                        *)
(***************************************************************************)
\* the exact key: (lowercase title, start truncated to the minute, venue id
\* or normalized location name)
ExactKey(d) ==
    <<Lower(d.title), d.start \div 60, d.venue,
      IF d.venue # NULL THEN <<>> ELSE Lower(d.location)>>

(***************************************************************************)
(* State                                                                   *)
(***************************************************************************)
VARIABLES
    events,      \* table events: id -> row
    signatures,  \* table event_dedupe_signatures: rows <<event_id, signature_hash>>
    nextId,      \* the next id gen_random_uuid() hands out
    clock,       \* NOW() of the store, one tick per write
    runs,        \* batches started so far
    vectors,     \* collection events_embeddings of the vector DB: id -> point
    job,         \* per worker: the call of EventProcessor.process in flight
    pool,        \* the raw records the scrapers can come back with
    search,      \* the call of the MCP tool search_events in flight
    messages,    \* chat page: the message list (useUIState)
    isLoading,   \* chat page: useState(false)
    inputValue,  \* chat page: the text in the input field
    activeFilters, \* chat page: the labels of the highlighted quick filters
    calls,       \* the submitUserMessage calls started: content, time left, pending
    currentSessionId, \* chat page: useState(null), 0 for null
    currentSession,   \* localStorage: what setCurrentSession has stored
    history,     \* localStorage: the sessions saveChatSession has stored, by id
    effectDue,   \* the session-saving effect of the last render has yet to run
    stamp,       \* the last reading of Date.now()
    toasts,      \* chat page: the toasts shown, each with the time left on its timer
    storedUser,  \* localStorage: what setUser has stored
    user,        \* chat page: useState(null), the user of the page
    menuUser,    \* AccountMenu: useState(null), the user of the menu
    menuOpen,    \* AccountMenu: isOpen
    isLoginOpen, \* chat page: the LoginDialog is open
    cards,       \* the EventCards mounted: event id and isFavorite
    favorites    \* localStorage: the list under cityvibe-favorites

chatVars == <<messages, isLoading, inputValue, activeFilters, calls>>

sessionVars == <<currentSessionId, currentSession, history, effectDue, stamp>>

accountVars == <<storedUser, user, menuUser, menuOpen, isLoginOpen>>

favVars == <<cards, favorites>>

pageVars == <<chatVars, sessionVars, toasts, accountVars, favVars>>

storeVars == <<events, signatures, vectors, nextId, clock>>

ingestVars == <<events, signatures, vectors, nextId, clock, runs, job, pool>>

Workers == {1, 2}

MaxBatch == 2

MaxRuns == 2

\* the raw batches a scraper may hand over: distinct records, in any order
Batches ==
    {b \in UNION {[1..n -> pool] : n \in 1..MaxBatch} :
        \A i, j \in DOMAIN b : i # j => b[i] # b[j]}

NoSummary == [created |-> 0, updated |-> 0, discarded |-> 0, errors |-> 0]

EmptySnap == [events |-> <<>>, signatures |-> <<>>]

\* staged and stagedSigs are the Event objects and signature rows the call
\* holds in memory until the database writer upserts them
IdleJob ==
    [pc |-> "idle", batch |-> <<>>, normalized |-> <<>>, validated |-> <<>>,
     reported |-> {}, idx |-> 0, deduped |-> <<>>, staged |-> <<>>,
     stagedSigs |-> <<>>, geoFailed |-> {},
     summary |-> NoSummary, rerun |-> FALSE, snap |-> EmptySnap, doneClock |-> 0]

Active(w) == job[w].pc \notin {"idle", "done", "failed"}

(***************************************************************************)
(* Event store                                                             *)
(***************************************************************************)
\* the bounded history of raw payload snapshots: the last MaxHistory
MaxHistory == 2

PushHistory(h, rid) ==
    LET all == Append(h, rid) IN
    IF Len(all) <= MaxHistory THEN all ELSE SubSeq(all, Len(all) - MaxHistory + 1, Len(all))

\* the row of a new event
NewEvent(id, d, now) ==
    [id |-> id, src |-> d.src, sid |-> d.sid, title |-> d.title, desc |-> d.desc,
     etype |-> d.etype, start |-> d.start, end |-> d.end, venue |-> d.venue,
     location |-> d.location, address |-> d.address, lat |-> d.lat, lon |-> d.lon,
     price_min |-> d.price_min, price_max |-> d.price_max, conf |-> d.conf,
     tags |-> d.tags, history |-> <<d.rid>>, created_at |-> now, updated_at |-> now]

\* the scalar fields a merge may overwrite
ScalarFields ==
    {"desc", "start", "end", "venue", "address", "lat", "lon", "price_min", "price_max"}

\* a merge that forgets to compare the confidence scores
MergeScalarAnyConfidence(old, new, draftConf, storedConf) ==
    IF new # NULL THEN new ELSE old

\* one scalar field after a merge of draft value new into stored value old
MergeScalar(old, new, draftConf, storedConf) ==
    IF draftConf >= storedConf /\ new # NULL THEN new ELSE old

\* update semantics: the field-by-field merge of draft d into the stored row e
MergeEvent(e, d, now) ==
    LET wins == d.conf >= e.conf IN
    [e EXCEPT
       !.title = IF wins THEN d.title ELSE @,
       !.etype = IF wins THEN d.etype ELSE @,
       !.location = IF wins /\ d.location # <<>> THEN d.location ELSE @,
       !.desc = MergeScalar(@, d.desc, d.conf, e.conf),
       !.start = MergeScalar(@, d.start, d.conf, e.conf),
       !.end = MergeScalar(@, d.end, d.conf, e.conf),
       !.venue = MergeScalar(@, d.venue, d.conf, e.conf),
       !.address = MergeScalar(@, d.address, d.conf, e.conf),
       !.lat = MergeScalar(@, d.lat, d.conf, e.conf),
       !.lon = MergeScalar(@, d.lon, d.conf, e.conf),
       !.price_min = MergeScalar(@, d.price_min, d.conf, e.conf),
       !.price_max = MergeScalar(@, d.price_max, d.conf, e.conf),
       !.conf = IF wins THEN d.conf ELSE @,
       !.tags = @ \cup d.tags,
       !.history = PushHistory(@, d.rid),
       !.updated_at = now]

\* the table without its primary key: no insert is rejected
SignatureConflictNever(sigs, id, key) == FALSE

\* PRIMARY KEY (event_id, signature_hash): the insert that the table rejects
SignatureConflict(sigs, id, key) == <<id, key>> \in Range(sigs)

\* signature rows only for an event that has none yet
InsertSignatureFirstOnly(sigs, id, key) ==
    IF \E r \in Range(sigs) : r[1] = id THEN sigs ELSE Append(sigs, <<id, key>>)

\* INSERT INTO event_dedupe_signatures, a rejected row left out
InsertSignature(sigs, id, key) ==
    IF SignatureConflict(sigs, id, key) THEN sigs ELSE Append(sigs, <<id, key>>)

RECURSIVE InsertSignatures(_, _)
\* the rows of a unit of work inserted one after the other
InsertSignatures(sigs, rows) ==
    IF rows = <<>> THEN sigs
    ELSE InsertSignatures(InsertSignature(sigs, Head(rows)[1], Head(rows)[2]), Tail(rows))

\* the events that hold a signature row with this hash
EventsWithKey(sigs, key) == {s[1] : s \in {t \in Range(sigs) : t[2] = key}}

\* rows over: the stored rows with the rows of a unit of work laid over them
Overlay(stored, over) ==
    [id \in DOMAIN stored \cup DOMAIN over |->
        IF id \in DOMAIN over THEN over[id] ELSE stored[id]]

\* what the call of worker w sees: the tables and its own pending writes
ViewEvents(w) == Overlay(events, job[w].staged)

ViewSignatures(w) == InsertSignatures(signatures, job[w].stagedSigs)

(***************************************************************************)
(* Deduplicator                                                            *)
(***************************************************************************)
\* +-3 hours
ToleranceWindow == 3 * 3600

SimilarityThreshold == 85

RadiusMetres == 200

\* metres between two coordinates given in whole degrees
Distance(lat1, lon1, lat2, lon2) == (Abs(lat1 - lat2) + Abs(lon1 - lon2)) * 111000

HasLocation(x) == x.venue # NULL \/ x.location # <<>> \/ x.lat # NULL

LocationOverlap(e, d) ==
    \/ e.venue # NULL /\ e.venue = d.venue
    \/ /\ e.lat # NULL /\ e.lon # NULL /\ d.lat # NULL /\ d.lon # NULL
       /\ Distance(e.lat, e.lon, d.lat, d.lon) < RadiusMetres
    \/ ~HasLocation(e) /\ ~HasLocation(d)

TitleSimilarity(e, d) == Similarity(FuzzyTitle(e.title), FuzzyTitle(d.title))

\* fuzzy candidates chosen on title and time alone
FuzzyCandidatesAnywhere(evs, d) ==
    {id \in DOMAIN evs :
        /\ Abs(evs[id].start - d.start) <= ToleranceWindow
        /\ TitleSimilarity(evs[id], d) >= SimilarityThreshold}

\* the events of evs a draft may be a fuzzy duplicate of
FuzzyCandidates(evs, d) ==
    {id \in DOMAIN evs :
        /\ Abs(evs[id].start - d.start) <= ToleranceWindow
        /\ TitleSimilarity(evs[id], d) >= SimilarityThreshold
        /\ LocationOverlap(evs[id], d)}

\* the best-scoring candidate: highest similarity, then most recently updated
BestCandidate(evs, d, cands) ==
    CHOOSE id \in cands :
        \A other \in cands \ {id} :
            LET a == TitleSimilarity(evs[id], d)
                b == TitleSimilarity(evs[other], d)
            IN \/ a > b
               \/ a = b /\ evs[id].updated_at > evs[other].updated_at
               \/ a = b /\ evs[id].updated_at = evs[other].updated_at /\ id < other

\* a deduplicator that never consults the store
DecisionsAlwaysNew(evs, sigs, d) == {[kind |-> "new", target |-> NULL]}

\* the decisions the deduplicator may take for draft d on the events evs and
\* the signature rows sigs it sees
Decisions(evs, sigs, d) ==
    IF EventsWithKey(sigs, ExactKey(d)) # {}
    THEN {[kind |-> "update", target |-> id] : id \in EventsWithKey(sigs, ExactKey(d))}
    ELSE IF FuzzyCandidates(evs, d) # {}
         THEN {[kind |-> "update", target |-> BestCandidate(evs, d, FuzzyCandidates(evs, d))]}
         ELSE {[kind |-> "new", target |-> NULL]}

(***************************************************************************)
(* Enricher collaborators                                                  *)
(***************************************************************************)
\* the geocoding collaborator's answer for an address it knows
Geocode(address) == <<45 + address, address - 3>>

\* Python truthiness of a coordinate: None and 0 are both falsy
Truthy(x) == x # NULL /\ x # 0

\* "jazz"
WJazz == <<10, 1, 26, 26>>

\* the keyword/category extraction collaborator
ExtractTags(e) ==
    IF WJazz \in Range(SplitWords(Lower(e.title), <<>>, <<>>)) THEN {"jazz"} ELSE {e.etype}

(***************************************************************************)
(* EventProcessor.process, one call per batch.  mode is "serial" (one      *)
(* batch at a time), "locked" (batches in parallel, drafts serialized by   *)
(* the dedupe lock) or "race" (the lock is not taken).                     *)
(***************************************************************************)
OthersQuiet(w) == \A o \in Workers \ {w} : ~Active(o)

\* worker o is between its first look at the store and its upsert
Holding(o) ==
    \/ job[o].pc \in {"enrich", "return", "upsert"}
    \/ job[o].pc = "dedupe" /\ job[o].idx > 1

\* the dedupe lock: taken with the first lookup, released after the upsert
LockFree(w) == job[w].idx > 1 \/ \A o \in Workers \ {w} : ~Holding(o)

SetJob(w, j) == job' = [job EXCEPT ![w] = j]

\* processBatch(sourceId = w, rawRecords = b)
StartBatch(w, mode) ==
    /\ job[w].pc = "idle"
    /\ runs < MaxRuns
    /\ mode = "serial" => OthersQuiet(w)
    /\ \E b \in Batches : SetJob(w, [IdleJob EXCEPT !.pc = "normalize", !.batch = b])
    /\ runs' = runs + 1
    /\ UNCHANGED <<storeVars, pool, search, pageVars>>

\* the same raw batch handed over once more, the store untouched in between
Rerun(w, mode) ==
    /\ job[w].pc = "done"
    /\ runs < MaxRuns
    /\ clock = job[w].doneClock
    /\ mode = "serial" => OthersQuiet(w)
    /\ SetJob(w, [IdleJob EXCEPT !.pc = "normalize", !.batch = job[w].batch,
                                 !.rerun = TRUE,
                                 !.snap = [events |-> events, signatures |-> signatures]])
    /\ runs' = runs + 1
    /\ UNCHANGED <<storeVars, pool, search, pageVars>>

\* normalized = [self.normalize(e) for e in raw_events]
NormalizeStage(w) ==
    /\ job[w].pc = "normalize"
    /\ LET b == job[w].batch IN
       IF \E i \in DOMAIN b : NormalizeFails(b[i])
       THEN \* NormalizationError leaves the comprehension and process()
            SetJob(w, [job[w] EXCEPT !.pc = "failed"])
       ELSE SetJob(w, [job[w] EXCEPT !.pc = "validate",
                          !.normalized = [i \in DOMAIN b |-> Normalize(b[i], w)]])
    /\ UNCHANGED <<storeVars, runs, pool, search, pageVars>>

\* the validation stage with the filter condition dropped
ValidateStageKeepsAll(w) ==
    /\ job[w].pc = "validate"
    /\ SetJob(w, [job[w] EXCEPT !.pc = "dedupe", !.validated = job[w].normalized,
                                !.idx = 1])
    /\ UNCHANGED <<storeVars, runs, pool, search, pageVars>>

\* validated = [e for e in normalized if self.validator.validate(e)]
ValidateStage(w) ==
    /\ job[w].pc = "validate"
    /\ LET ok == SelectSeq(job[w].normalized, ValidateDraft)
           bad == {d \in Range(job[w].normalized) : ~ValidateDraft(d)}
       IN SetJob(w, [job[w] EXCEPT
                       !.pc = IF ok = <<>> THEN "return" ELSE "dedupe",
                       !.validated = ok,
                       !.idx = 1,
                       !.reported = {<<d.rid, Violations(d)>> : d \in bad},
                       !.summary.discarded = Cardinality(bad)])
    /\ UNCHANGED <<storeVars, runs, pool, search, pageVars>>

\* a processor that hands the deduplicated list straight back
AfterDedupeSkipsEnrich(j, row, key, kind) ==
    [j EXCEPT !.pc = IF j.idx < Len(j.validated) THEN "dedupe" ELSE "return",
              !.idx = IF j.idx < Len(j.validated) THEN j.idx + 1 ELSE 1,
              !.deduped = Append(@, row.id),
              !.staged = Overlay(@, row.id :> row),
              !.stagedSigs = Append(@, <<row.id, key>>),
              !.summary.created = IF kind = "new" THEN @ + 1 ELSE @,
              !.summary.updated = IF kind = "new" THEN @ ELSE @ + 1]

\* the job after draft idx became, or was merged into, the Event object row
AfterDedupe(j, row, key, kind) ==
    [j EXCEPT !.pc = IF j.idx < Len(j.validated) THEN "dedupe" ELSE "enrich",
              !.idx = IF j.idx < Len(j.validated) THEN j.idx + 1 ELSE 1,
              !.deduped = Append(@, row.id),
              !.staged = Overlay(@, row.id :> row),
              !.stagedSigs = Append(@, <<row.id, key>>),
              !.summary.created = IF kind = "new" THEN @ + 1 ELSE @,
              !.summary.updated = IF kind = "new" THEN @ ELSE @ + 1]

\* deduped = await self.deduper.deduplicate(validated), one draft of the list:
\* look the draft up (exact key, then fuzzy) in the store and among the events
\* of this call, then make the new Event or merge into the matched one; the
\* signature row of the draft goes with it either way
DedupeStage(w, mode) ==
    /\ job[w].pc = "dedupe"
    /\ mode # "race" => LockFree(w)
    /\ LET d == job[w].validated[job[w].idx]
           evs == ViewEvents(w)
       IN \E dec \in Decisions(evs, ViewSignatures(w), d) :
             LET row == IF dec.kind = "new"
                        THEN NewEvent(nextId, d, clock + 1)
                        ELSE MergeEvent(evs[dec.target], d, clock + 1)
             IN /\ SetJob(w, AfterDedupe(job[w], row, ExactKey(d), dec.kind))
                /\ nextId' = IF dec.kind = "new" THEN nextId + 1 ELSE nextId
    /\ clock' = clock + 1
    /\ UNCHANGED <<events, signatures, vectors, runs, pool, search, pageVars>>

\* enriched = await self.enrich(deduped), one event of the loop: geocode, tags
EnrichStage(w) ==
    /\ job[w].pc = "enrich"
    /\ LET id == job[w].deduped[job[w].idx]
           e == job[w].staged[id]
           \* if event.address and not event.latitude
           needGeo == e.address # NULL /\ ~Truthy(e.lat)
           last == job[w].idx = Len(job[w].deduped)
       IN \E outcome \in (IF needGeo THEN {"found", "error"} ELSE {"skip"}) :
             IF outcome = "error"
             THEN \* the geocoder raises: the exception leaves enrich() and process()
                  SetJob(w, [job[w] EXCEPT !.pc = "failed", !.geoFailed = @ \cup {id}])
             ELSE SetJob(w, [job[w] EXCEPT
                       !.staged[id].lat =
                           IF outcome = "found" THEN Geocode(e.address)[1] ELSE @,
                       !.staged[id].lon =
                           IF outcome = "found" THEN Geocode(e.address)[2] ELSE @,
                       \* if not event.tags
                       !.staged[id].tags = IF e.tags = {} THEN ExtractTags(e) ELSE @,
                       !.pc = IF last THEN "return" ELSE "enrich",
                       !.idx = IF last THEN @ ELSE @ + 1])
    /\ UNCHANGED <<storeVars, runs, pool, search, pageVars>>

\* return ProcessedBatch(enriched)
ReturnBatch(w) ==
    /\ job[w].pc = "return"
    /\ SetJob(w, [job[w] EXCEPT !.pc = "upsert"])
    /\ UNCHANGED <<storeVars, runs, pool, search, pageVars>>

\* 5. Database Writer upserts events to PostgreSQL
UpsertBatch(w) ==
    /\ job[w].pc = "upsert"
    /\ events' = Overlay(events, job[w].staged)
    /\ signatures' = InsertSignatures(signatures, job[w].stagedSigs)
    /\ SetJob(w, [job[w] EXCEPT !.pc = "embed"])
    /\ UNCHANGED <<vectors, nextId, clock, runs, pool, search, pageVars>>

\* table venues, column city
VenueCity(v) == IF v = 1 THEN "amsterdam" ELSE IF v = 2 THEN "rotterdam" ELSE "nowhere"

EventCity(e) == VenueCity(e.venue)

\* the vector of the embedding model for the text of an event
EmbeddingOf(e) ==
    CASE e.title = TJazzAtBird -> 1
      [] e.title = TJazzSignBird -> 2
      [] e.title = TOpera -> 3
      [] OTHER -> 4

\* the point of an event in the collection events_embeddings
Point(e) ==
    [embedding |-> EmbeddingOf(e), city |-> EventCity(e), start |-> e.start,
     etype |-> e.etype]

\* 6. Embedding Service generates embeddings, stores in vector DB;
\* 7. Job Status updated
EmbedBatch(w) ==
    /\ job[w].pc = "embed"
    /\ \E outcome \in {"stored", "unavailable"} :
          IF outcome = "stored"
          THEN /\ vectors' = Overlay(vectors, [id \in DOMAIN job[w].staged |->
                                                   Point(events[id])])
               /\ SetJob(w, [job[w] EXCEPT !.pc = "done", !.doneClock = clock])
          ELSE /\ vectors' = vectors
               /\ SetJob(w, [job[w] EXCEPT !.pc = "failed"])
    /\ UNCHANGED <<events, signatures, nextId, clock, runs, pool, search, pageVars>>

\* the worker takes the next job
Reset(w) ==
    /\ job[w].pc \in {"done", "failed"}
    /\ runs < MaxRuns
    /\ SetJob(w, IdleJob)
    /\ UNCHANGED <<storeVars, runs, pool, search, pageVars>>

(***************************************************************************)
(* Hybrid search: the MCP tool search_events                               *)
(***************************************************************************)
NOCITY == "any city"

NOTYPE == "any type"

MaxLimit == 2

Day(n) == n * 86400

\* the query embedding of the embedding service, and the stored embeddings:
\* two-dimensional vectors, compared by dot product
QueryEmbedding(query) == IF query = WJazz THEN <<3, 1>> ELSE <<1, 3>>

Dot(a, b) == a[1] * b[1] + a[2] * b[2]

Embeddings == [i \in 1..4 |-> <<<<3, 1>>, <<2, 1>>, <<1, 2>>, <<0, 0>>>>[i]]

\* the arguments of a call
SearchParams ==
    [query : {WJazz}, city : {NOCITY, "amsterdam", "rotterdam"},
     start_date : {NULL, Day(2)}, end_date : {NULL, Day(3)},
     event_type : {NOTYPE, "concert"}, max_price : {NULL, 25}, limit : 1..MaxLimit]

IdleSearch ==
    [pc |-> "idle", args |-> [query |-> <<>>, city |-> NOCITY, start_date |-> NULL,
                              end_date |-> NULL, event_type |-> NOTYPE,
                              max_price |-> NULL, limit |-> 0],
     query_embedding |-> <<>>, vector_results |-> <<>>, text_results |-> <<>>,
     result |-> <<>>, outage |-> FALSE]

\* a sequence of the members of set S ordered by Before
SeqOfSet(S, Before(_, _)) ==
    SortSeq(CHOOSE f \in [1..Cardinality(S) -> S] : Range(f) = S, Before)

Take(s, n) == SubSeq(s, 1, Min(n, Len(s)))

\* the price a max_price filter looks at
PriceOf(e) == e.price_min

\* vector_db.search(query_vector, filter = {city, start_time >= start_date,
\* event_type}, limit): the embedded events, best dot product first
VectorSearch(qv, city, start_date, event_type, limit) ==
    LET hits == {id \in DOMAIN vectors :
                    /\ city # NOCITY => vectors[id].city = city
                    /\ start_date # NULL => vectors[id].start >= start_date
                    /\ event_type # NOTYPE => vectors[id].etype = event_type}
        sim(id) == Dot(qv, Embeddings[vectors[id].embedding])
        Before(a, b) == sim(a) > sim(b) \/ (sim(a) = sim(b) /\ a < b)
    IN Take([i \in 1..Cardinality(hits) |->
                LET id == SeqOfSet(hits, Before)[i] IN [id |-> id, score |-> sim(id)]],
            limit)

\* the text relevance of an event for a query word: its occurrences in the title
TextRank(e, query) ==
    Cardinality({i \in 1..Len(SplitWords(Lower(e.title), <<>>, <<>>)) :
                    SplitWords(Lower(e.title), <<>>, <<>>)[i] = query})

\* db.search_events(query, city, start_date, end_date, event_type, max_price,
\* limit): full-text search with every filter applied
TextSearch(query, city, start_date, end_date, event_type, max_price, limit) ==
    LET hits == {id \in DOMAIN events :
                    /\ TextRank(events[id], query) > 0
                    /\ city # NOCITY => EventCity(events[id]) = city
                    /\ start_date # NULL => events[id].start >= start_date
                    /\ end_date # NULL => events[id].start <= end_date
                    /\ event_type # NOTYPE => events[id].etype = event_type
                    /\ max_price # NULL =>
                          (PriceOf(events[id]) = NULL \/ PriceOf(events[id]) <= max_price)}
        rank(id) == TextRank(events[id], query)
        Before(a, b) == rank(a) > rank(b) \/ (rank(a) = rank(b) /\ a < b)
    IN Take([i \in 1..Cardinality(hits) |->
                LET id == SeqOfSet(hits, Before)[i] IN [id |-> id, score |-> rank(id)]],
            limit)

\* the scores of a result list scaled to 0..100 of its best score
NormalizedScore(list, id) ==
    LET best == IF list = <<>> THEN 1 ELSE Max(1, list[1].score)
        own == {r \in Range(list) : r.id = id}
    IN IF own = {} THEN 0 ELSE ((CHOOSE r \in own : TRUE).score * 100) \div best

WeightText == 50

WeightVector == 50

CombinedScore(vector_results, text_results, id) ==
    WeightText * NormalizedScore(text_results, id)
    + WeightVector * NormalizedScore(vector_results, id)

\* merge_and_rerank(vector_results, text_results): the union by event id,
\* highest combined score first, equal scores by event id
MergeAndRerank(vector_results, text_results) ==
    LET ids == {r.id : r \in Range(vector_results) \cup Range(text_results)}
        score(id) == CombinedScore(vector_results, text_results, id)
        Before(a, b) == score(a) > score(b) \/ (score(a) = score(b) /\ a < b)
    IN SeqOfSet(ids, Before)

\* the LLM calls the tool
SearchStart ==
    /\ search.pc = "idle"
    /\ \E a \in SearchParams : search' = [IdleSearch EXCEPT !.pc = "embed", !.args = a]
    /\ UNCHANGED <<ingestVars, pageVars>>

\* 1. query_embedding = await embedding_service.embed(query)
SearchEmbed ==
    /\ search.pc = "embed"
    /\ \E outcome \in {"vector", "unavailable"} :
          IF outcome = "unavailable"
          THEN \* the await raises: search_events ends with the error
               search' = [search EXCEPT !.pc = "error", !.outage = TRUE]
          ELSE search' = [search EXCEPT !.pc = "vector",
                             !.query_embedding = QueryEmbedding(search.args.query)]
    /\ UNCHANGED <<ingestVars, pageVars>>

\* 2. vector_results = await vector_db.search(...)
SearchVector ==
    /\ search.pc = "vector"
    /\ \E outcome \in {"hits", "unavailable"} :
          IF outcome = "unavailable"
          THEN search' = [search EXCEPT !.pc = "error", !.outage = TRUE]
          ELSE search' = [search EXCEPT !.pc = "text",
                             !.vector_results =
                                 VectorSearch(search.query_embedding, search.args.city,
                                              search.args.start_date,
                                              search.args.event_type, search.args.limit)]
    /\ UNCHANGED <<ingestVars, pageVars>>

\* 3. text_results = await db.search_events(...)
SearchText ==
    /\ search.pc = "text"
    /\ search' = [search EXCEPT !.pc = "merge",
                     !.text_results =
                         TextSearch(search.args.query, search.args.city,
                                    search.args.start_date, search.args.end_date,
                                    search.args.event_type, search.args.max_price,
                                    search.args.limit)]
    /\ UNCHANGED <<ingestVars, pageVars>>

\* 4. return merge_and_rerank(vector_results, text_results)
SearchMerge ==
    /\ search.pc = "merge"
    /\ search' = [search EXCEPT !.pc = "returned",
                     !.result = MergeAndRerank(search.vector_results, search.text_results)]
    /\ UNCHANGED <<ingestVars, pageVars>>

\* the tool is ready for the next call
SearchReset ==
    /\ search.pc \in {"returned", "error"}
    /\ search' = IdleSearch
    /\ UNCHANGED <<ingestVars, pageVars>>

\* the fixture set of the search tests: the rows ingestion and enrichment leave
FixtureRaw ==
    <<RawJazz,
      [RawJazzVariant EXCEPT !.venue = 2],
      [RawOpera EXCEPT !.start = <<4, 20, 0, 0>>, !.price = <<40, 45>>],
      [RawJazzShouted EXCEPT !.start = <<2, 22, 0, 0>>, !.price = <<10, 10>>]>>

Fixture == [id \in 1..4 |-> NewEvent(id, Normalize(FixtureRaw[id], 1), id)]

\* the fixture events the background pass has embedded so far: all but the last
FixtureVectors == [id \in 1..3 |-> Point(Fixture[id])]

(***************************************************************************)
(* Chat page (CityVibePage) and the server action submitUserMessage.  A     *)
(* text is known by the keywords of the tool detection it contains; time    *)
(* counts in steps of 100 ms.                                               *)
(***************************************************************************)
Text(words, keywords) == [words |-> words, blank |-> FALSE, keywords |-> keywords]

NoText == [words |-> "", blank |-> TRUE, keywords |-> {}]

\* only spaces: nothing after trim()
Spaces == [words |-> "  ", blank |-> TRUE, keywords |-> {}]

\* what a user may type
Typed ==
    {NoText, Spaces, Text("hello", {}),
     Text("any concerts in rotterdam?", {"rotterdam", "concert"})}

\* const suggestions: s.query
Suggestions ==
    {Text("What's happening in Rotterdam tonight?", {"rotterdam"}),
     Text("Show me culture in Amsterdam", {"amsterdam", "culture"}),
     Text("Show me walks in Amsterdam", {"amsterdam", "walk"}),
     Text("Concerts in Amsterdam", {"amsterdam", "concert"})}

\* const quickFilters: label and query
QuickFilters ==
    {[label |-> "Free", query |-> Text("free events", {})],
     [label |-> "Tonight", query |-> Text("events tonight", {})],
     [label |-> "Music", query |-> Text("music events", {"music"})],
     [label |-> "Culture", query |-> Text("culture events", {"culture"})],
     [label |-> "Food", query |-> Text("food events", {})]}

WeatherWords == {"weather", "rain", "sun", "snow", "wind", "storm", "cloud", "fog", "clear"}

\* submitUserMessage, tool detection: the first branch whose keyword occurs
ToolToCall(input) ==
    IF input.keywords \cap WeatherWords # {} THEN "get_weather_events"
    ELSE IF "rotterdam" \in input.keywords THEN "get_rotterdam_events"
    ELSE IF "amsterdam" \in input.keywords THEN "get_amsterdam_events"
    ELSE IF input.keywords \cap {"walk", "secret", "hidden"} # {} THEN "get_city_secrets"
    ELSE IF input.keywords \cap {"concert", "ticketmaster", "tickets"} # {}
         THEN "get_ticketmaster_events"
    ELSE "default_chat"

\* the simulated AI processing delay, 300 ms
ProcessingDelay == 3

\* MCP_CLIENTS[...].delay of the client behind a tool, and of the weather MCP
ClientDelay(tool) ==
    CASE tool = "get_weather_events" -> 5
      [] tool = "get_rotterdam_events" -> 6
      [] tool = "get_amsterdam_events" -> 7
      [] tool = "get_city_secrets" -> 5
      [] tool = "get_ticketmaster_events" -> 8
      [] OTHER -> 0

\* the time submitUserMessage(input) takes
ResponseTime(input) == ProcessingDelay + ClientDelay(ToolToCall(input))

\* messages sent in one visit of the page
MaxSends == 2

\* readings of Date.now() up to which the handlers that show a toast are run
MaxStamp == 3

Pending == {k \in DOMAIN calls : calls[k].pending}

\* currentSessionId null, and no user
NoSession == 0

NoUser == "none"

\* interface ChatSession: the title and timestamp follow from id and messages
Session(id, msgs) == [id |-> id, messages |-> msgs]

\* setCurrentSession(null)
NoStored == Session(NoSession, <<>>)

\* toast.duration || 3000
ToastDuration == 30

\* a render of the page hands every ToastComponent a new onClose (removeToast is
\* made anew), so the effect of each toast clears its timer and starts it again
Rerendered(ts) == [i \in DOMAIN ts |-> [ts[i] EXCEPT !.left = ToastDuration]]

\* showToast(message): the id is Date.now().toString()
ShowToast(ts, now, message) ==
    Append(Rerendered(ts), [id |-> now, message |-> message, left |-> ToastDuration])

\* the session-saving effect that takes a fresh id on every run
SaveSessionEffectAlwaysFresh(msgs, st) ==
    IF msgs = <<>>
    THEN st
    ELSE [sid |-> st.now + 1, cur |-> Session(st.now + 1, msgs), now |-> st.now + 1]

\* useEffect (save chat session) of a render with the messages msgs and the
\* session state st: sessionId = currentSessionId || Date.now().toString()
SaveSessionEffect(msgs, st) ==
    IF msgs = <<>>
    THEN st
    ELSE IF st.sid # NoSession
         THEN [st EXCEPT !.cur = Session(st.sid, msgs)]
         ELSE [sid |-> st.now + 1, cur |-> Session(st.now + 1, msgs), now |-> st.now + 1]

\* A render after a user event: msgs, sid and cur are what the handler has set,
\* now the last reading of Date.now().  An effect still due from the render of
\* a response runs first, with the values of that render, and its updates are
\* queued behind those of the handler; the effect of the new render follows at
\* once.
Commit(msgs, sid, cur, now) ==
    LET stale == SaveSessionEffect(messages, [sid |-> currentSessionId,
                                              cur |-> currentSession, now |-> now])
        queued == IF effectDue THEN stale ELSE [sid |-> sid, cur |-> cur, now |-> now]
        st == SaveSessionEffect(msgs, queued)
    IN  /\ currentSessionId' = st.sid
        /\ currentSession' = st.cur
        /\ stamp' = st.now
        /\ effectDue' = FALSE

\* saveChatSession(session)
SaveChatSession(id, msgs) ==
    history' = [i \in DOMAIN history \cup {id} |-> IF i = id THEN msgs ELSE history[i]]

\* "Save current session before ...": the head of the three handlers
SaveBefore ==
    IF messages # <<>> /\ currentSessionId # NoSession
    THEN SaveChatSession(currentSessionId, messages)
    ELSE UNCHANGED history

\* handleSendMessage(content), up to its await
HandleSendMessage(content) ==
    IF content.blank
    THEN UNCHANGED <<messages, isLoading, inputValue, calls, sessionVars, toasts>>
    ELSE /\ isLoading' = TRUE
         /\ inputValue' = NoText
         /\ messages' = Append(messages, [role |-> "user", call |-> Len(calls) + 1,
                                          content |-> content.words])
         /\ calls' = Append(calls, [content |-> content, left |-> ResponseTime(content),
                                    pending |-> TRUE])
         /\ Commit(messages', currentSessionId, currentSession, stamp)
         /\ toasts' = Rerendered(toasts)
         /\ UNCHANGED history

\* the input field: onChange, and Escape
TypeInput ==
    /\ ~isLoading
    /\ \E t \in Typed : inputValue' = t
    /\ inputValue' # inputValue
    /\ Commit(messages, currentSessionId, currentSession, stamp)
    /\ toasts' = Rerendered(toasts)
    /\ UNCHANGED <<messages, isLoading, activeFilters, calls, history>>
    /\ UNCHANGED <<ingestVars, search, accountVars, favVars>>

\* the form: onSubmit, with the field and the send button disabled while
\* loading and the button disabled for a blank text
SubmitForm ==
    /\ ~isLoading
    /\ ~inputValue.blank
    /\ Len(calls) < MaxSends
    /\ HandleSendMessage(inputValue)
    /\ UNCHANGED activeFilters
    /\ UNCHANGED <<ingestVars, search, accountVars, favVars>>

\* a suggestion button, shown while the message list is empty
ClickSuggestion ==
    /\ messages = <<>>
    /\ Len(calls) < MaxSends
    /\ \E q \in Suggestions : HandleSendMessage(q)
    /\ UNCHANGED activeFilters
    /\ UNCHANGED <<ingestVars, search, accountVars, favVars>>

\* a quick-filter button, shown once the message list is not empty
ClickQuickFilter ==
    /\ messages # <<>>
    /\ Len(calls) < MaxSends
    /\ \E f \in QuickFilters :
          /\ HandleSendMessage(f.query)
          /\ activeFilters' = IF f.label \in activeFilters
                              THEN activeFilters \ {f.label}
                              ELSE activeFilters \cup {f.label}
    /\ UNCHANGED <<ingestVars, search, accountVars, favVars>>

\* 100 ms pass for every call in flight and every toast shown
Tick ==
    /\ Pending # {} \/ toasts # <<>>
    /\ \A k \in Pending : calls[k].left > 0
    /\ \A i \in DOMAIN toasts : toasts[i].left > 0
    /\ calls' = [k \in DOMAIN calls |->
                    IF calls[k].pending THEN [calls[k] EXCEPT !.left = @ - 1] ELSE calls[k]]
    /\ toasts' = [i \in DOMAIN toasts |-> [toasts[i] EXCEPT !.left = @ - 1]]
    /\ UNCHANGED <<messages, isLoading, inputValue, activeFilters, sessionVars>>
    /\ UNCHANGED <<ingestVars, search, accountVars, favVars>>

\* submitUserMessage returns and handleSendMessage goes on after its await; the
\* session-saving effect of the render that follows is due, and an effect due
\* from an earlier response runs before that render
Respond ==
    /\ \E k \in Pending :
          /\ calls[k].left = 0
          /\ messages' = Append(messages, [role |-> "assistant", call |-> k,
                                           content |-> ToolToCall(calls[k].content)])
          /\ calls' = [calls EXCEPT ![k].pending = FALSE]
    /\ isLoading' = FALSE
    /\ LET st == [sid |-> currentSessionId, cur |-> currentSession, now |-> stamp]
           flushed == IF effectDue THEN SaveSessionEffect(messages, st) ELSE st
       IN  /\ currentSessionId' = flushed.sid
           /\ currentSession' = flushed.cur
           /\ stamp' = flushed.now
    /\ effectDue' = TRUE
    /\ toasts' = Rerendered(toasts)
    /\ UNCHANGED <<inputValue, activeFilters, history>>
    /\ UNCHANGED <<ingestVars, search, accountVars, favVars>>

\* useEffect (save chat session), run after the render of a response
RunSaveSessionEffect ==
    /\ effectDue
    /\ LET st == SaveSessionEffect(messages, [sid |-> currentSessionId,
                                              cur |-> currentSession, now |-> stamp])
       IN  /\ currentSessionId' = st.sid
           /\ currentSession' = st.cur
           /\ stamp' = st.now
           /\ toasts' = IF st.sid # currentSessionId THEN Rerendered(toasts) ELSE toasts
    /\ effectDue' = FALSE
    /\ UNCHANGED <<chatVars, history>>
    /\ UNCHANGED <<ingestVars, search, accountVars, favVars>>

\* handleClearChat and handleNewChat after the saving: the same statements but
\* for the text of the toast
StartOver(message) ==
    /\ SaveBefore
    /\ messages' = <<>>
    /\ activeFilters' = {}
    /\ toasts' = ShowToast(toasts, stamp + 1, message)
    /\ Commit(<<>>, NoSession, NoStored, stamp + 1)
    /\ UNCHANGED <<isLoading, inputValue, calls>>
    /\ UNCHANGED <<ingestVars, search, accountVars, favVars>>

\* the Clear button, shown once the message list is not empty
HandleClearChat ==
    /\ messages # <<>>
    /\ stamp < MaxStamp
    /\ StartOver("Chat cleared")

\* the New Chat button of the sidebar, which a signed-in user sees
HandleNewChat ==
    /\ user # NoUser
    /\ stamp < MaxStamp
    /\ StartOver("New chat started")

\* a session of the sidebar list (getChatHistory) is clicked
HandleLoadSession ==
    /\ user # NoUser
    /\ stamp < MaxStamp
    /\ \E id \in DOMAIN history :
          /\ SaveBefore
          /\ messages' = history[id]
          /\ toasts' = ShowToast(toasts, stamp + 1, "Chat session loaded")
          /\ Commit(history[id], id, Session(id, history[id]), stamp + 1)
    /\ UNCHANGED <<isLoading, inputValue, activeFilters, calls>>
    /\ UNCHANGED <<ingestVars, search, accountVars, favVars>>

\* ToastComponent: the timer set by its effect fires, onClose(toast.id)
ToastTimeout ==
    /\ \E i \in DOMAIN toasts :
          /\ toasts[i].left = 0
          /\ toasts' = Rerendered(SelectSeq(toasts, LAMBDA t : t.id # toasts[i].id))
    /\ Commit(messages, currentSessionId, currentSession, stamp)
    /\ UNCHANGED <<chatVars, history>>
    /\ UNCHANGED <<ingestVars, search, accountVars, favVars>>

\* ToastComponent: the close button, onClose(toast.id)
CloseToast ==
    /\ \E i \in DOMAIN toasts :
          toasts' = Rerendered(SelectSeq(toasts, LAMBDA t : t.id # toasts[i].id))
    /\ Commit(messages, currentSessionId, currentSession, stamp)
    /\ UNCHANGED <<chatVars, history>>
    /\ UNCHANGED <<ingestVars, search, accountVars, favVars>>

\* the names typed into the LoginDialog
Names == {"ann"}

\* LoginDialog.handleSubmit: setUser(user), onLogin(user) = handleLogin of the
\* page; the AccountMenu reads the stored user when it is mounted
HandleLogin ==
    /\ isLoginOpen
    /\ stamp < MaxStamp
    /\ \E name \in Names :
          /\ storedUser' = name
          /\ user' = name
          /\ menuUser' = IF user = NoUser THEN name ELSE menuUser
    /\ menuOpen' = IF user = NoUser THEN FALSE ELSE menuOpen
    /\ isLoginOpen' = FALSE
    /\ toasts' = ShowToast(toasts, stamp + 1, "Welcome")
    /\ Commit(messages, currentSessionId, currentSession, stamp + 1)
    /\ UNCHANGED <<chatVars, history>>
    /\ UNCHANGED <<ingestVars, search, favVars>>

\* the Sign In button, shown while the page has no user
OpenLogin ==
    /\ user = NoUser
    /\ ~isLoginOpen
    /\ isLoginOpen' = TRUE
    /\ toasts' = Rerendered(toasts)
    /\ Commit(messages, currentSessionId, currentSession, stamp)
    /\ UNCHANGED <<storedUser, user, menuUser, menuOpen>>
    /\ UNCHANGED <<chatVars, history>>
    /\ UNCHANGED <<ingestVars, search, favVars>>

\* the LoginDialog is dismissed: onOpenChange(false)
CloseLogin ==
    /\ isLoginOpen
    /\ isLoginOpen' = FALSE
    /\ toasts' = Rerendered(toasts)
    /\ Commit(messages, currentSessionId, currentSession, stamp)
    /\ UNCHANGED <<storedUser, user, menuUser, menuOpen>>
    /\ UNCHANGED <<chatVars, history>>
    /\ UNCHANGED <<ingestVars, search, favVars>>

\* the AccountMenu is mounted while the page has a user, and shows its button
\* while its own user state is set
MenuShown == user # NoUser /\ menuUser # NoUser

\* AccountMenu: the account button, setIsOpen(!isOpen)
ToggleMenu ==
    /\ MenuShown
    /\ menuOpen' = ~menuOpen
    /\ UNCHANGED <<storedUser, user, menuUser, isLoginOpen>>
    /\ UNCHANGED <<ingestVars, search, chatVars, sessionVars, toasts, favVars>>

\* AccountMenu.handleLogout: setUser(null), setUserState(null) of the menu,
\* setIsOpen(false)
HandleLogout ==
    /\ MenuShown
    /\ menuOpen
    /\ storedUser' = NoUser
    /\ menuUser' = NoUser
    /\ menuOpen' = FALSE
    /\ UNCHANGED <<user, isLoginOpen>>
    /\ UNCHANGED <<ingestVars, search, chatVars, sessionVars, toasts, favVars>>

\* the page is loaded again: every component starts from its initial state and
\* the mount effects read the stored user; what is in localStorage stays
Reload ==
    /\ messages' = <<>>
    /\ isLoading' = FALSE
    /\ inputValue' = NoText
    /\ activeFilters' = {}
    /\ calls' = <<>>
    /\ currentSessionId' = NoSession
    /\ effectDue' = FALSE
    /\ toasts' = <<>>
    /\ user' = storedUser
    /\ menuUser' = storedUser
    /\ menuOpen' = FALSE
    /\ isLoginOpen' = (storedUser = NoUser)
    /\ cards' = <<>>
    /\ UNCHANGED <<storedUser, currentSession, history, stamp, favorites>>
    /\ UNCHANGED <<ingestVars, search>>

\* events the carousels show: mockUitAgendaRotterdam, mockIAmsterdam
CardEvents == {"rot-1", "ams-1"}

\* EventCards mounted at a time
MaxCards == 3

Includes(s, x) == \E i \in DOMAIN s : s[i] = x

\* an EventCard is mounted by the carousel of a response; its effect reads
\* the favourite state from localStorage
MountCard ==
    /\ Len(cards) < MaxCards
    /\ \E e \in CardEvents :
          cards' = Append(cards, [event |-> e, isFavorite |-> Includes(favorites, e)])
    /\ UNCHANGED favorites
    /\ UNCHANGED <<ingestVars, search, chatVars, sessionVars, toasts, accountVars>>

\* EventCard.handleFavorite of card c
HandleFavorite(c) ==
    IF cards[c].isFavorite
    THEN /\ favorites' = SelectSeq(favorites, LAMBDA id : id # cards[c].event)
         /\ cards' = [cards EXCEPT ![c].isFavorite = FALSE]
    ELSE /\ favorites' = Append(favorites, cards[c].event)
         /\ cards' = [cards EXCEPT ![c].isFavorite = TRUE]

\* the favourite button of a mounted card is clicked
ClickFavorite ==
    /\ \E c \in DOMAIN cards : HandleFavorite(c)
    /\ UNCHANGED <<ingestVars, search, chatVars, sessionVars, toasts, accountVars>>

\* the sends and responses of the chat
NextChat ==
    \/ TypeInput
    \/ SubmitForm
    \/ ClickSuggestion
    \/ ClickQuickFilter
    \/ Tick
    \/ Respond
    \/ RunSaveSessionEffect

\* the chat with its sessions: signing in, clearing, starting over, loading
NextSession ==
    \/ ClickSuggestion
    \/ ClickQuickFilter
    \/ Tick
    \/ Respond
    \/ RunSaveSessionEffect
    \/ HandleClearChat
    \/ HandleNewChat
    \/ HandleLoadSession
    \/ ToastTimeout
    \/ CloseToast

\* the toasts of the page while the user signs in, types and copies
NextToast ==
    \/ HandleLogin
    \/ OpenLogin
    \/ CloseLogin
    \/ TypeInput
    \/ Tick
    \/ ToastTimeout
    \/ CloseToast

\* signing in and out
NextAccount ==
    \/ HandleLogin
    \/ OpenLogin
    \/ CloseLogin
    \/ ToggleMenu
    \/ HandleLogout
    \/ Reload
    \/ Tick
    \/ ToastTimeout
    \/ CloseToast

\* the favourite buttons of the cards
NextFavorites ==
    \/ MountCard
    \/ ClickFavorite
    \/ Reload

\* the chat page as it is mounted with the user u in localStorage
PageMounted(u) ==
    /\ messages = <<>>
    /\ isLoading = FALSE
    /\ inputValue = NoText
    /\ activeFilters = {}
    /\ calls = <<>>
    /\ currentSessionId = NoSession
    /\ currentSession = NoStored
    /\ history = <<>>
    /\ effectDue = FALSE
    /\ stamp = 0
    /\ toasts = <<>>
    /\ storedUser = u
    /\ user = u
    /\ menuUser = u
    /\ menuOpen = FALSE
    /\ isLoginOpen = (u = NoUser)
    /\ cards = <<>>
    /\ favorites = <<>>

\* a first visit: nothing in localStorage
InitChat == PageMounted(NoUser)

vars ==
    <<events, signatures, vectors, nextId, clock, runs, job, pool, search, messages,
      isLoading, inputValue, activeFilters, calls, currentSessionId, currentSession,
      history, effectDue, stamp, toasts, storedUser, user, menuUser, menuOpen,
      isLoginOpen, cards, favorites>>

Init ==
    /\ events = <<>>
    /\ signatures = <<>>
    /\ vectors = <<>>
    /\ nextId = 1
    /\ clock = 0
    /\ runs = 0
    /\ job = [w \in Workers |-> IdleJob]
    /\ pool = RawPool
    /\ search = IdleSearch
    /\ InitChat

\* the steps of worker w
Steps(w, mode) ==
    \/ StartBatch(w, mode)
    \/ Rerun(w, mode)
    \/ NormalizeStage(w)
    \/ ValidateStage(w)
    \/ DedupeStage(w, mode)
    \/ EnrichStage(w)
    \/ ReturnBatch(w)
    \/ UpsertBatch(w)
    \/ EmbedBatch(w)
    \/ Reset(w)

Ingest(mode) == \E w \in Workers : Steps(w, mode)

NextSerial == Ingest("serial")

NextLocked == Ingest("locked")

NextRace == Ingest("race")

\* one batch at a time
Spec == Init /\ [][NextSerial]_vars

\* batches in parallel, contending drafts serialized by the dedupe lock
SpecLocked == Init /\ [][NextLocked]_vars

\* batches in parallel, the dedupe lock not taken
SpecRace == Init /\ [][NextRace]_vars

InitSearch ==
    /\ events = Fixture
    /\ signatures = [id \in 1..4 |-> <<id, ExactKey(Fixture[id])>>]
    /\ vectors = FixtureVectors
    /\ nextId = 5
    /\ clock = 4
    /\ runs = 0
    /\ job = [w \in Workers |-> IdleJob]
    /\ pool = RawPool
    /\ search = IdleSearch
    /\ InitChat

NextSearch ==
    \/ SearchStart
    \/ SearchEmbed
    \/ SearchVector
    \/ SearchText
    \/ SearchMerge
    \/ SearchReset

\* queries over the fixture set
SpecSearch == InitSearch /\ [][NextSearch]_vars

\* the cleanup of an expired event, or of one its source has removed:
\* DELETE FROM events, with ON DELETE CASCADE on event_dedupe_signatures; the
\* vector DB is synced on event create and update
DeleteEvent ==
    \E id \in DOMAIN events :
        /\ events' = [i \in DOMAIN events \ {id} |-> events[i]]
        /\ signatures' = SelectSeq(signatures, LAMBDA r : r[1] # id)
        /\ UNCHANGED <<vectors, nextId, clock, runs, job, pool, search, pageVars>>

NextCleanup ==
    \/ DeleteEvent
    \/ SearchStart
    \/ SearchEmbed
    \/ SearchVector
    \/ SearchText
    \/ SearchMerge
    \/ SearchReset

\* the fixture set with events expiring and queries going on
SpecCleanup == InitSearch /\ [][NextCleanup]_vars

InitFuzzy ==
    /\ events = <<>>
    /\ signatures = <<>>
    /\ vectors = <<>>
    /\ nextId = 1
    /\ clock = 0
    /\ runs = 0
    /\ job = [w \in Workers |-> IdleJob]
    /\ pool = FuzzyPool
    /\ search = IdleSearch
    /\ InitChat

\* the chat page next to an empty store
SpecChat == Init /\ [][NextChat]_vars

\* a visitor who signed in earlier comes back
InitSession ==
    /\ events = <<>>
    /\ signatures = <<>>
    /\ vectors = <<>>
    /\ nextId = 1
    /\ clock = 0
    /\ runs = 0
    /\ job = [w \in Workers |-> IdleJob]
    /\ pool = RawPool
    /\ search = IdleSearch
    /\ \E u \in Names : PageMounted(u)

\* the chat page with its sessions
SpecSession == InitSession /\ [][NextSession]_vars

\* the account of the visitor
SpecAccount == Init /\ [][NextAccount]_vars

\* the event cards and their favourite buttons
SpecFavorites == Init /\ [][NextFavorites]_vars

\* the toasts of the page: time passes, and a timer that has run out fires
SpecToast == Init /\ [][NextToast]_vars /\ WF_vars(Tick) /\ WF_vars(ToastTimeout)

NextFuzzy == Steps(1, "serial")

\* the batches of one source, of the near-duplicate listings
SpecFuzzy == InitFuzzy /\ [][NextFuzzy]_vars

(***************************************************************************)
(* Properties                                                              *)
(***************************************************************************)
\* C1: the store never holds two events with the same exact key, also when
\* the check-then-insert steps of two writers interleave.
C1_UniqueExactKey ==
    \A i, j \in DOMAIN signatures :
        signatures[i][2] = signatures[j][2] => signatures[i][1] = signatures[j][1]

\* a stored row without the two fields every merge touches
Stable(e) == [e EXCEPT !.updated_at = 0, !.history = <<>>]

\* the writes of the call of w have reached the store
Committed(w) == job[w].pc \in {"embed", "done"}

\* the second run of the batch of w has been written to the store
SecondRunDone(w) == job[w].pc = "embed" /\ job[w].rerun

\* C2 as written: the second run of a batch creates no event, adds no signature
\* row and leaves every stored field of every event unchanged.
C2_NoFieldChange ==
    \A w \in Workers :
        SecondRunDone(w) =>
            /\ job[w].summary.created = 0
            /\ signatures = job[w].snap.signatures
            /\ events = job[w].snap.events

\* C2, amended: the second run of a batch, once it has returned, has created no
\* event, added no signature row and left every stored field unchanged except
\* updated_at and the raw-payload history, which every merge writes.
C2_IdempotentRerun ==
    \A w \in Workers :
        SecondRunDone(w) =>
            /\ job[w].summary.created = 0
            /\ signatures = job[w].snap.signatures
            /\ DOMAIN events = DOMAIN job[w].snap.events
            /\ \A id \in DOMAIN events :
                  Stable(events[id]) = Stable(job[w].snap.events[id])

C2_Witness ==
    \E w \in Workers :
        /\ SecondRunDone(w)
        /\ job[w].summary.updated = 2
        /\ \E id \in DOMAIN events : events[id] # job[w].snap.events[id]

\* the drafts written so far, each with the event it was written to
Placements ==
    UNION {{<<job[w].validated[i], job[w].deduped[i]>> : i \in 1..Len(job[w].deduped)} :
             w \in {o \in Workers : Committed(o)}}

SameExactFields(a, b) ==
    /\ Lower(a.title) = Lower(b.title)
    /\ a.start \div 60 = b.start \div 60
    /\ a.venue = b.venue
    /\ a.venue = NULL => Lower(a.location) = Lower(b.location)

\* C3: two drafts with identical (title, start minute, venue) are merged into
\* one event, in whichever order and from whichever batch they arrive.
C3_ExactMatchMerges ==
    \A p, q \in Placements : SameExactFields(p[1], q[1]) => p[2] = q[2]

C3_Witness ==
    \E p, q \in Placements :
        /\ p[1].rid = 1 /\ q[1].rid = 3
        /\ SameExactFields(p[1], q[1])
        /\ p[2] = q[2]
        /\ events[p[2]].history = <<3, 1>>

\* C4: at most one event exists for a (source, source-native id) pair.
C4_OneEventPerSourceId ==
    \A a, b \in DOMAIN events :
        (events[a].sid # NOSID /\ events[a].src = events[b].src
         /\ events[a].sid = events[b].sid) => a = b

\* the row new keeps every scalar field that was set in the row old
KeepsSetScalars(old, new) ==
    /\ new.title = old.title
    /\ new.etype = old.etype
    /\ new.conf = old.conf
    /\ old.location # <<>> => new.location = old.location
    /\ \A f \in ScalarFields : old[f] # NULL => new[f] = old[f]

\* worker w merges its current draft, of lower confidence, into event id
LowConfidenceMerge(w, id) ==
    /\ job[w].pc = "dedupe"
    /\ job'[w] # job[w]
    /\ id \in DOMAIN ViewEvents(w)
    /\ job'[w].deduped = Append(job[w].deduped, id)
    /\ job[w].validated[job[w].idx].conf < ViewEvents(w)[id].conf

\* C5: a merge of a draft whose confidence is lower than the stored event's
\* overwrites no scalar field of the event that was set.
C5_ConfidenceMonotone ==
    [][\A w \in Workers : \A id \in 1..nextId :
          LowConfidenceMerge(w, id) =>
              KeepsSetScalars(ViewEvents(w)[id], job'[w].staged[id])]_vars

\* the variant (confidence 50) was merged into the event of the trusted scrape
C5_Witness ==
    \E id \in DOMAIN events :
        /\ events[id].history = <<1, 2>>
        /\ events[id].conf = 90
        /\ events[id].desc = 1
        /\ events[id].tags = {"live"}

\* the call of process() has ended, by return or by exception
Ended(w) == job[w].pc \in {"done", "failed"}

Stored(d) == \E i \in DOMAIN signatures : signatures[i][2] = ExactKey(d)

\* C6: a record without title or with an unparsable start is counted as an
\* error, and every other record of the batch is still processed.
C6_BadRecordNotFatal ==
    \A w \in Workers :
        Ended(w) =>
            /\ job[w].summary.errors =
                  Cardinality({r \in Range(job[w].batch) : NormalizeFails(r)})
            /\ \A r \in Range(job[w].batch) :
                  (~NormalizeFails(r) /\ ValidateDraft(Normalize(r, w)))
                      => Stored(Normalize(r, w))

\* the validation stage of the call has run
PastValidation(w) ==
    /\ job[w].pc \notin {"idle", "normalize", "validate"}
    /\ job[w].normalized # <<>>

\* the deduplication stage of the call has run
PastDedupe(w) == PastValidation(w) /\ job[w].pc # "dedupe"

\* draft d of the call of w went through the deduplicator
Deduplicated(w, d) == \E i \in 1..Len(job[w].deduped) : job[w].validated[i] = d

C8_OutageDegrades ==
    search.outage => search.pc # "error"

InDateRange(e, a) ==
    /\ a.start_date # NULL => e.start >= a.start_date
    /\ a.end_date # NULL => e.start <= a.end_date

\* C9: every event returned satisfies the city and date-range filter.
C9_CityDateFilter ==
    search.pc = "returned" =>
        \A i \in DOMAIN search.result :
            LET e == events[search.result[i]] IN
            /\ search.args.city # NOCITY => EventCity(e) = search.args.city
            /\ InDateRange(e, search.args)

\* C10: no event returned has a stored price above max_price.
C10_MaxPriceFilter ==
    (search.pc = "returned" /\ search.args.max_price # NULL) =>
        \A i \in DOMAIN search.result :
            LET e == events[search.result[i]] IN
            PriceOf(e) = NULL \/ PriceOf(e) <= search.args.max_price

\* the combined score of a returned event in the call in flight
ResultScore(i) ==
    CombinedScore(search.vector_results, search.text_results, search.result[i])

\* C11: a search returns at most limit events, highest combined score first,
\* events of equal score by ascending event id.
C11_TopNOrdered ==
    search.pc = "returned" =>
        /\ Len(search.result) <= search.args.limit
        /\ \A i, j \in DOMAIN search.result :
              i < j => \/ ResultScore(i) > ResultScore(j)
                       \/ ResultScore(i) = ResultScore(j)
                          /\ search.result[i] < search.result[j]

\* the stage that may follow a stage of process() and of the scraping flow
NextStages(pc) ==
    CASE pc = "normalize" -> {"validate"}
      [] pc = "validate" -> {"dedupe", "return"}
      [] pc = "dedupe" -> {"dedupe", "enrich"}
      [] pc = "enrich" -> {"enrich", "return"}
      [] pc = "return" -> {"upsert"}
      [] pc = "upsert" -> {"embed"}
      [] pc = "embed" -> {"done"}
      [] OTHER -> {}

\* the raw records behind the row of event id in the call of worker w
SourcesOf(w, id) ==
    {job[w].validated[i] : i \in {k \in 1..Len(job[w].deduped) : job[w].deduped[k] = id}}

\* what worker w writes to the store went through validation and deduplication
WritesOnlyDeduplicated(w) ==
    /\ job[w].pc = "upsert"
    /\ \A id \in DOMAIN events' :
          (id \notin DOMAIN events \/ events'[id] # events[id]) =>
              /\ SourcesOf(w, id) # {}
              /\ \A d \in SourcesOf(w, id) :
                    /\ d \in Range(job[w].normalized)
                    /\ ValidateDraft(d)
                    /\ d.rid \in Range(events'[id].history)

\* C12: the stages of a batch run in the order normalize, validate,
\* deduplicate, enrich, and no event reaches the event store or the vector
\* index before it has passed validation and deduplication.
C12_StagesInOrder ==
    [][/\ \A w \in Workers :
             (Active(w) /\ job'[w] # job[w] /\ job'[w].pc # "failed")
                 => job'[w].pc \in NextStages(job[w].pc)
       /\ (events' # events \/ signatures' # signatures)
             => \E w \in Workers : job'[w] # job[w] /\ WritesOnlyDeduplicated(w)
       /\ vectors' # vectors
             => \E w \in Workers :
                   /\ job[w].pc = "embed"
                   /\ job'[w] # job[w]
                   /\ \A id \in DOMAIN vectors' :
                         (id \notin DOMAIN vectors \/ vectors'[id] # vectors[id])
                             => id \in Range(job[w].deduped) /\ id \in DOMAIN events]_vars

\* a batch of two went through every stage, to the store and the vector index
C12_Witness ==
    \E w \in Workers :
        /\ job[w].pc = "done"
        /\ Len(job[w].deduped) = 2
        /\ job[w].summary.created = 2
        /\ \A id \in Range(job[w].deduped) : id \in DOMAIN events /\ id \in DOMAIN vectors

\* the enrichment of the events of the call of w is pending or has failed
EnrichmentOpen(w) == job[w].pc = "enrich" \/ job[w].geoFailed # {}

\* C13: enrichment runs after persistence: while the enrichment of an event is
\* pending or has failed the event is in the store, where the lexical search
\* finds it, and it is in the vector index only once it is embedded.
C13_EnrichAfterPersistence ==
    \A w \in Workers :
        EnrichmentOpen(w) =>
            \A id \in Range(job[w].deduped) :
                /\ id \in DOMAIN events
                /\ id \in DOMAIN vectors => vectors[id] = Point(events[id])

\* C14: a failure of the geocoder for an event leaves its coordinates null and
\* does not fail the batch: the other events are enriched and the call returns.
C14_GeocoderFailureNotFatal ==
    \A w \in Workers :
        \A id \in job[w].geoFailed :
            /\ job[w].staged[id].lat = NULL
            /\ job[w].staged[id].lon = NULL
            /\ job[w].pc # "failed"

\* C15: the enricher calls the geocoder only for an event with an address and
\* without coordinates and derives tags only for an event without tags;
\* coordinates and tags that are present, a latitude of 0 included, stay.
C15_EnrichOnlyFillsGaps ==
    [][\A w \in Workers :
          (job[w].pc = "enrich" /\ job'[w] # job[w]) =>
              LET id == job[w].deduped[job[w].idx]
                  e == job[w].staged[id]
                  after == job'[w].staged[id]
              IN /\ (e.lat # NULL /\ e.lon # NULL) =>
                        /\ after.lat = e.lat
                        /\ after.lon = e.lon
                        /\ job'[w].geoFailed = job[w].geoFailed
                 /\ e.address = NULL => (after.lat = e.lat /\ after.lon = e.lon)
                 /\ e.tags # {} => after.tags = e.tags]_vars

\* C16: every draft accepted as a new event or as an update leaves the
\* signature row (event id, exact key of the draft) of the event it went
\* into; two title variants of one event in one batch give one event and two
\* signature rows.
C16_SignaturePerDraft ==
    \A w \in Workers :
        Committed(w) =>
            /\ \A i \in 1..Len(job[w].deduped) :
                  /\ job[w].deduped[i] \in DOMAIN events
                  /\ <<job[w].deduped[i], ExactKey(job[w].validated[i])>>
                        \in Range(signatures)
            /\ (runs = 1 /\ Range(job[w].batch) = {RawJazz, RawJazzVariant}) =>
                  /\ Cardinality(DOMAIN events) = 1
                  /\ Len(signatures) = 2

\* "Jazz at Bird" and "Jazz @ Bird" of one batch: one event, two signature rows
C16_Witness ==
    \E w \in Workers :
        /\ Committed(w)
        /\ job[w].batch = <<RawJazz, RawJazzVariant>>
        /\ Cardinality(DOMAIN events) = 1
        /\ Len(signatures) = 2
        /\ signatures[1][1] = signatures[2][1]
        /\ signatures[1][2] # signatures[2][2]

\* C17: after an event is deleted no signature row and no entry of the vector
\* index refers to its id.
C17_DeleteCascades ==
    \A id \in 1..(nextId - 1) :
        id \notin DOMAIN events =>
            /\ \A i \in DOMAIN signatures : signatures[i][1] # id
            /\ id \notin DOMAIN vectors

\* event e is a fuzzy match of draft d
Qualifies(e, d) ==
    /\ Abs(e.start - d.start) <= ToleranceWindow
    /\ TitleSimilarity(e, d) >= SimilarityThreshold
    /\ LocationOverlap(e, d)

\* the deduplicator of worker w places its current draft without an exact match
FuzzyStep(w) ==
    /\ job[w].pc = "dedupe"
    /\ job'[w] # job[w]
    /\ EventsWithKey(ViewSignatures(w), ExactKey(job[w].validated[job[w].idx])) = {}

\* C18: a draft without exact match is merged into an event exactly when the
\* event starts within the tolerance window, the titles are similar enough and
\* the locations overlap; of several such events it goes into the most similar
\* one, of equally similar ones into the most recently updated one; without
\* such an event a new event is made.
C18_FuzzyMatch ==
    [][\A w \in Workers :
          FuzzyStep(w) =>
              LET d == job[w].validated[job[w].idx]
                  evs == ViewEvents(w)
                  id == job'[w].deduped[Len(job'[w].deduped)]
                  matches == {c \in DOMAIN evs : Qualifies(evs[c], d)}
              IN IF matches = {}
                 THEN /\ id \notin DOMAIN evs
                      /\ job'[w].summary.created = job[w].summary.created + 1
                 ELSE /\ id \in matches
                      /\ job'[w].summary.updated = job[w].summary.updated + 1
                      /\ \A o \in matches :
                            \/ TitleSimilarity(evs[id], d) > TitleSimilarity(evs[o], d)
                            \/ /\ TitleSimilarity(evs[id], d) = TitleSimilarity(evs[o], d)
                               /\ evs[id].updated_at >= evs[o].updated_at]_vars

\* "Jazz @ Bird" went into the later written of two equally similar events, and
\* the listings at venue 2 and two letters off stayed events of their own
C18_Witness ==
    \E a, b, c \in DOMAIN events :
        /\ events[a].history = <<12>>
        /\ events[b].history = <<11, 14>>
        /\ events[c].history \in {<<15>>, <<16>>}
        /\ events[a].updated_at < events[b].created_at

\* C19: isLoading is true whenever a submitUserMessage call started by
\* handleSendMessage has not yet returned.
C19_LoadingWhilePending ==
    Pending # {} => isLoading

\* C20: every assistant response stands directly after the user message whose
\* handleSendMessage call produced it, whatever the order of sends and responses.
C20_ResponseFollowsItsMessage ==
    \A i \in DOMAIN messages :
        messages[i].role = "assistant" =>
            /\ i > 1
            /\ messages[i - 1].role = "user"
            /\ messages[i - 1].call = messages[i].call

\* the step is a handleSendMessage that got past its guard
Sends == Len(calls') > Len(calls)

\* C21: handleNewChat and handleClearChat leave the message list empty and
\* currentSessionId null, and both stay so until the next handleSendMessage (or
\* a session is loaded), also when a response of a call started earlier arrives.
C21_ResetStaysEmpty ==
    [][/\ HandleNewChat \/ HandleClearChat =>
              messages' = <<>> /\ currentSessionId' = NoSession
       /\ (/\ messages = <<>>
           /\ currentSessionId = NoSession
           /\ ~Sends
           /\ ~HandleLoadSession) =>
              messages' = <<>> /\ currentSessionId' = NoSession]_vars

\* C22: handleClearChat, handleNewChat and handleLoadSession, run on a message
\* list that is not empty, store it with saveChatSession under the current
\* session id before they replace it.
C22_SavedBeforeReplaced ==
    [][(/\ HandleClearChat \/ HandleNewChat \/ HandleLoadSession
        /\ messages # <<>>) =>
           /\ currentSessionId # NoSession
           /\ currentSessionId \in DOMAIN history'
           /\ history'[currentSessionId] = messages]_vars

\* C23: once the session-saving effect has run on a message list that is not
\* empty, currentSessionId is set, and a set currentSessionId changes only in
\* handleClearChat, handleNewChat and handleLoadSession.
C23_SessionIdStable ==
    [][/\ (messages' # <<>> /\ ~effectDue') => currentSessionId' # NoSession
       /\ (currentSessionId # NoSession /\ currentSessionId' # currentSessionId) =>
              HandleClearChat \/ HandleNewChat \/ HandleLoadSession]_vars

\* a saved session was loaded and a further message sent in it: the id is the
\* one it was saved under
C23_Witness ==
    /\ Len(messages) >= 3
    /\ ~effectDue
    /\ currentSessionId \in DOMAIN history
    /\ currentSession = Session(currentSessionId, messages)
    /\ Len(history[currentSessionId]) < Len(messages)

\* C24: the isFavorite flag of every mounted EventCard equals the membership
\* of its event id in the list stored under cityvibe-favorites.
C24_FlagMatchesStore ==
    \A c \in DOMAIN cards : cards[c].isFavorite = Includes(favorites, cards[c].event)

Shown(id) == \E i \in DOMAIN toasts : toasts[i].id = id

\* C25: every toast that showToast has added is removed from the list in the
\* end, by its timer or by the close button, whatever renders of the page
\* happen while it is shown.
C25_ToastEventuallyRemoved ==
    \A id \in 1..MaxStamp : Shown(id) ~> ~Shown(id)

\* C26: handleLogout of the AccountMenu leaves the stored user and the user of
\* the page null, so that the page shows Sign In and no sidebar.
C26_SignOutClearsUser ==
    [][HandleLogout => storedUser' = NoUser /\ user' = NoUser]_vars

\* C27: a message that asks for walks, secrets or hidden places and names
\* Amsterdam or Rotterdam is answered by the tool get_city_secrets.
C27_WalksInCityAreSecrets ==
    \A i \in DOMAIN messages :
        messages[i].role = "assistant" =>
            LET asked == calls[messages[i].call].content.keywords
            IN  (/\ asked \cap {"walk", "secret", "hidden"} # {}
                 /\ asked \cap {"amsterdam", "rotterdam"} # {}) =>
                    messages[i].content = "get_city_secrets"

====
